---- MODULE Spec2Model ----
(***************************************************************************)
(* Model of manager_bot/admin.py: the eleven admin command handlers and    *)
(* send_message_to_admin.                                                  *)
(*                                                                         *)
(* One handler invocation is one action.  Every call the handler makes     *)
(* outside its own body (identity resolution, record reads, readiness      *)
(* predicates, pipeline delegates, chat-transport sends, file system       *)
(* calls) appends one event to `calls`, in program order.  The set         *)
(* `faults` chosen with the invocation names the positions of `calls` at   *)
(* which the callee raises instead of returning.                           *)
(*                                                                         *)
(* Python strings that the code parses, compares or joins are sequences    *)
(* of one-character strings, so that int(), str(), " ".join() and          *)
(* Path.suffix are computed and not assumed.                               *)
(***************************************************************************)
EXTENDS Integers, Sequences, FiniteSets, TLC

VARIABLES ADMIN_ID, records, status, update, calls, result

vars == <<ADMIN_ID, records, status, update, calls, result>>

----------------------------------------------------------------------------
(* Bounds *)

\* longest context.args enumerated
MaxArgs == 2
\* positions of `calls` at which a callee may raise
MaxCalls == 8
\* number of callees that raise in one invocation
MaxFaults == 2

----------------------------------------------------------------------------
(* Strings *)

S_1 == <<"1">>
S_2 == <<"2">>
S_555 == <<"5", "5", "5">>
S_abc == <<"a", "b", "c">>
S_hi == <<"h", "i">>
S_a_log == <<"a", ".", "l", "o", "g">>
S_n_log == <<"n", ".", "l", "o", "g">>
S_x_exe == <<"x", ".", "e", "x", "e">>
S_up_b_log == <<".", ".", "/", "b", ".", "l", "o", "g">>
S_b_log == <<"b", ".", "l", "o", "g">>
S_users_data == <<"u", "s", "e", "r", "s", "_", "d", "a", "t", "a">>
S_None == <<"N", "o", "n", "e">>
S_unknown == <<"u", "n", "k", "n", "o", "w", "n">>

Digits == <<"0", "1", "2", "3", "4", "5", "6", "7", "8", "9">>

IsDigit(c) == \E d \in 1..10 : Digits[d] = c

DigitVal(c) == (CHOOSE d \in 1..10 : Digits[d] = c) - 1

RECURSIVE DigitsVal(_)
DigitsVal(s) ==
    IF Len(s) = 0 THEN 0
    ELSE 10 * DigitsVal(SubSeq(s, 1, Len(s) - 1)) + DigitVal(s[Len(s)])

\* int(s) for a str s over letters, digits, '.', '/', '+' and '-':
\* an optional sign followed by one or more decimal digits, else ValueError
int(s) ==
    LET signed == Len(s) > 0 /\ s[1] \in {"+", "-"}
        body == IF signed THEN SubSeq(s, 2, Len(s)) ELSE s
        good == Len(body) > 0 /\ \A i \in 1..Len(body) : IsDigit(body[i])
    IN  IF ~good THEN [ok |-> FALSE, val |-> 0]
        ELSE [ok |-> TRUE,
              val |-> IF signed /\ s[1] = "-" THEN 0 - DigitsVal(body)
                      ELSE DigitsVal(body)]

RECURSIVE NatToStr(_)
NatToStr(n) ==
    IF n < 10 THEN <<Digits[n + 1]>>
    ELSE NatToStr(n \div 10) \o <<Digits[(n % 10) + 1]>>

\* str(x) of what get_tg_user_data_attribute_from_update_object returned
str(v) ==
    CASE v.kind = "int" -> NatToStr(v.n)
      [] v.kind = "None" -> S_None
      [] v.kind = "empty_str" -> <<>>

\* bug: "".join(parts), the words run together
RECURSIVE join_NoSeparator(_)
join_NoSeparator(parts) ==
    IF Len(parts) = 0 THEN <<>> ELSE parts[1] \o join_NoSeparator(Tail(parts))

\* " ".join(parts)
RECURSIVE join(_)
join(parts) ==
    IF Len(parts) = 0 THEN <<>>
    ELSE IF Len(parts) = 1 THEN parts[1]
    ELSE parts[1] \o <<" ">> \o join(Tail(parts))

----------------------------------------------------------------------------
(* Paths *)

\* the components of a path string: split on '/', empty and '.' dropped
RECURSIVE SplitPath(_, _, _)
SplitPath(s, cur, acc) ==
    LET flush == IF cur = <<>> \/ cur = <<".">> THEN acc ELSE Append(acc, cur)
    IN  IF Len(s) = 0 THEN flush
        ELSE IF s[1] = "/" THEN SplitPath(Tail(s), <<>>, flush)
        ELSE SplitPath(Tail(s), Append(cur, s[1]), acc)

\* Path(s)
Path(s) ==
    [abs |-> Len(s) > 0 /\ s[1] = "/", parts |-> SplitPath(s, <<>>, <<>>)]

\* os.getenv("USERS_DATA_DIR", "/users_data"), the default
USERS_DATA_DIR == <<"/", "u", "s", "e", "r", "s", "_", "d", "a", "t", "a">>

\* data_dir / file_relative_path: an absolute right operand replaces the left
PathJoin(p, s) ==
    LET q == Path(s)
    IN  IF q.abs THEN q ELSE [abs |-> p.abs, parts |-> p.parts \o q.parts]

\* file_path.name
PathName(p) == IF Len(p.parts) = 0 THEN <<>> ELSE p.parts[Len(p.parts)]

LastDot(name) ==
    IF \E i \in 1..Len(name) : name[i] = "."
    THEN CHOOSE i \in 1..Len(name) :
            name[i] = "." /\ \A j \in (i + 1)..Len(name) : name[j] # "."
    ELSE 0

\* file_path.suffix: from the last '.' of the name, unless that dot is the
\* first or the last character
PathSuffix(p) ==
    LET name == PathName(p)
        i == LastDot(name)
    IN  IF i > 1 /\ i < Len(name) THEN SubSeq(name, i, Len(name)) ELSE <<>>

\* what the operating system opens for a path: '..' steps resolved
RECURSIVE Resolve(_, _)
Resolve(parts, acc) ==
    IF Len(parts) = 0 THEN acc
    ELSE IF parts[1] = <<".", ".">>
         THEN Resolve(Tail(parts),
                      IF Len(acc) = 0 THEN acc ELSE SubSeq(acc, 1, Len(acc) - 1))
    ELSE Resolve(Tail(parts), Append(acc, parts[1]))

Resolved(p) == Resolve(p.parts, <<>>)

\* the files present on the host
FileSystem ==
    { <<S_users_data, S_a_log>>, <<S_users_data, S_x_exe>>, <<S_b_log>> }

\* file_path.exists()
exists(p) == Resolved(p) \in FileSystem

\* the resolved path lies under the data root
UnderDataRoot(p) ==
    LET r == Resolved(p)
        root == Resolved(Path(USERS_DATA_DIR))
    IN  Len(r) > Len(root) /\ SubSeq(r, 1, Len(root)) = root

\* bug: executables are accepted too
valid_extensions_WithExe ==
    << <<".", "l", "o", "g">>, <<".", "j", "s", "o", "n">>, <<".", "m", "p", "4">>,
       <<".", "e", "x", "e">> >>

valid_extensions == << <<".", "l", "o", "g">>, <<".", "j", "s", "o", "n">>, <<".", "m", "p", "4">> >>

InList(x, list) == \E i \in 1..Len(list) : list[i] = x

----------------------------------------------------------------------------
(* Execution of one handler invocation *)

NoExc == [type |-> "none", msg |-> <<>>]

\* one call: raised says whether the callee raised, res is what it returned
Ev(op, arg, raised, res) == [op |-> op, arg |-> arg, raised |-> raised, res |-> res]

\* entry of a handler: nothing called, nothing raised, not returned
Begin == [calls |-> <<>>, exc |-> NoExc, ret |-> FALSE]

\* control is still in the straight-line path
Pending(st) == st.exc.type # "none"

Live(st) == ~Pending(st) /\ ~st.ret

\* a call to a collaborator: it returns res, or raises when this position of
\* the invocation is one of the faults F
Call(st, F, op, arg, res) ==
    IF ~Live(st) THEN st
    ELSE IF (Len(st.calls) + 1) \in F
         THEN [st EXCEPT !.calls = Append(@, Ev(op, arg, TRUE, "none")),
                         !.exc = [type |-> "Exception", msg |-> <<"raised by", op>>]]
    ELSE [st EXCEPT !.calls = Append(@, Ev(op, arg, FALSE, res))]

\* a call into this module's own send_message_to_admin
Enter(st, op, arg) ==
    IF ~Live(st) THEN st ELSE [st EXCEPT !.calls = Append(@, Ev(op, arg, FALSE, "called"))]

\* raise type(msg)
Raise(st, type, msg) ==
    IF ~Live(st) THEN st ELSE [st EXCEPT !.exc = [type |-> type, msg |-> msg]]

\* return
Return(st) == IF ~Live(st) THEN st ELSE [st EXCEPT !.ret = TRUE]

\* entry of an except block: the exception is caught
Caught(st) == [st EXCEPT !.exc = NoExc, !.ret = FALSE]

----------------------------------------------------------------------------
(* Collaborators imported from services.* *)

FAIL_TO_IDENTIFY_USER_AS_ADMIN_TEXT == <<"FAIL_TO_IDENTIFY_USER_AS_ADMIN_TEXT">>

FAIL_TECHNICAL_SUPPORT_TEXT == <<"FAIL_TECHNICAL_SUPPORT_TEXT">>

get_list_of_users_from_records == DOMAIN records

is_user_in_records(record_id) == record_id \in DOMAIN records

is_vacancy_description_recieved(record_id) == records[record_id].vacancy_description

is_vacancy_sourcing_criterias_recieved(record_id) == records[record_id].sourcing_criterias

is_vacancy_selected(record_id) == records[record_id].vacancy_selected

is_vacany_data_enough_for_resume_analysis(user_id) == records[user_id].enough_data

get_target_vacancy_id_from_records(record_id) == records[record_id].vacancy_id

----------------------------------------------------------------------------
(* send_message_to_admin and the parts every handler repeats *)

send_message_to_admin(st, F, application, text) ==
    LET s0 == Enter(st, "send_message_to_admin", text)
        admin_id == ADMIN_ID
        chat_id == int(admin_id)
    IN  IF admin_id = <<>> THEN s0
        ELSE IF application.present /\ application.bot
             THEN IF ~chat_id.ok THEN s0
                  ELSE LET s1 == Call(s0, F, "bot.send_message",
                                      [chat_id |-> chat_id.val, text |-> text], "ok")
                       IN  IF Live(s0) THEN Caught(s1) ELSE s1
        ELSE s0

\* bug: the caller id is never compared
IsAdmin_AnyCaller(admin_id, bot_user_id) == ~(admin_id = <<>>)

\* bug: an unset ADMIN_ID is not rejected
IsAdmin_NoUnsetCheck(admin_id, bot_user_id) == ~(bot_user_id # admin_id)

\* not (not admin_id or bot_user_id != admin_id)
IsAdmin(admin_id, bot_user_id) == ~(admin_id = <<>> \/ bot_user_id # admin_id)

\* bot_user_id = str(get_tg_user_data_attribute_from_update_object(...)) and
\* the admin check that follows it
identify_and_check_admin(upd, F) ==
    LET s1 == Call(Begin, F, "get_tg_user_data_attribute_from_update_object", "id", upd.from)
        bot_user_id == str(upd.from)
        admin_id == ADMIN_ID
    IN  IF IsAdmin(admin_id, bot_user_id) THEN s1
        ELSE Return(Call(s1, F, "send_message_to_user", FAIL_TO_IDENTIFY_USER_AS_ADMIN_TEXT, "ok"))

\* bug: extra arguments are ignored instead of rejected
HasOneArg_AtLeastOne(args) == Len(args) # 0 /\ Len(args) >= 1

\* context.args and len(context.args) == 1
HasOneArg(args) == Len(args) # 0 /\ Len(args) = 1

\* bot_user_id if 'bot_user_id' in locals() else 'unknown'
bot_user_id_or_unknown(upd, st) ==
    IF Len(st.calls) >= 1 /\ ~st.calls[1].raised THEN str(upd.from) ELSE S_unknown

\* bug: the report is sent from a finally block, after successful runs too
notify_admin_on_error_Finally(name, upd, F, st) ==
    LET text == [handler |-> name, e |-> st.exc.msg,
                 admin_id |-> bot_user_id_or_unknown(upd, st)]
    IN  IF upd.application.present
        THEN send_message_to_admin(Caught(st), F, upd.application, text)
        ELSE Caught(st)

\* bug: the except block also tells the caller, as admin_send_message_command does
notify_admin_on_error_TellCaller(name, upd, F, st) ==
    IF ~Pending(st) THEN st
    ELSE LET text == [handler |-> name, e |-> st.exc.msg,
                      admin_id |-> bot_user_id_or_unknown(upd, st)]
             s5 == Call(Caught(st), F, "send_message_to_user", FAIL_TECHNICAL_SUPPORT_TEXT, "ok")
         IN  IF upd.application.present
             THEN send_message_to_admin(s5, F, upd.application, text)
             ELSE s5

\* the except block shared by every handler but admin_send_message_command
notify_admin_on_error(name, upd, F, st) ==
    IF ~Pending(st) THEN st
    ELSE LET text == [handler |-> name, e |-> st.exc.msg,
                      admin_id |-> bot_user_id_or_unknown(upd, st)]
         IN  IF upd.application.present
             THEN send_message_to_admin(Caught(st), F, upd.application, text)
             ELSE Caught(st)

\* what the invocation leaves behind: the calls made, the exception the
\* handler caught and the exception that left the handler
Outcome(body, final) ==
    [calls |-> final.calls, caught |-> body.exc, propagated |-> final.exc]

----------------------------------------------------------------------------
(* The handlers *)

\* bug: arguments are rejected as in the commands that take a user id
Run_admin_get_users_command_RejectsArgs(upd, F) ==
    LET s1 == identify_and_check_admin(upd, F)
        user_ids == get_list_of_users_from_records
        s2 == Call(s1, F, "get_list_of_users_from_records", "none", user_ids)
        body ==
            IF Len(upd.args) = 0
            THEN Call(s2, F, "send_message_to_user", <<"List of users:", user_ids>>, "ok")
            ELSE Raise(s1, "ValueError", <<"Invalid number of arguments.">>)
    IN  Outcome(body, notify_admin_on_error("admin_get_users_command", upd, F, body))

Run_admin_get_users_command(upd, F) ==
    LET s1 == identify_and_check_admin(upd, F)
        user_ids == get_list_of_users_from_records
        s2 == Call(s1, F, "get_list_of_users_from_records", "none", user_ids)
        body == Call(s2, F, "send_message_to_user", <<"List of users:", user_ids>>, "ok")
    IN  Outcome(body, notify_admin_on_error("admin_get_users_command", upd, F, body))

Run_admin_get_user_status_command(upd, F) ==
    LET s1 == identify_and_check_admin(upd, F)
        args == upd.args
        target_user_id == args[1]
        s2 == Call(s1, F, "is_user_in_records", target_user_id,
                   is_user_in_records(target_user_id))
        body ==
            IF HasOneArg(args)
            THEN IF target_user_id # <<>>
                 THEN IF is_user_in_records(target_user_id)
                      THEN Call(s2, F, "inform_admin_about_user_readiness", target_user_id, "ok")
                      ELSE Raise(s2, "ValueError", <<"User not found in records.", target_user_id>>)
                 ELSE Raise(s1, "ValueError", <<"Invalid command arguments.">>)
            ELSE Raise(s1, "ValueError", <<"Invalid number of arguments.">>)
    IN  Outcome(body, notify_admin_on_error("admin_get_user_status_command", upd, F, body))

Run_admin_anazlyze_sourcing_criterais_command(upd, F) ==
    LET s1 == identify_and_check_admin(upd, F)
        args == upd.args
        target_user_id == args[1]
        s2 == Call(s1, F, "is_user_in_records", target_user_id,
                   is_user_in_records(target_user_id))
        body ==
            IF HasOneArg(args)
            THEN IF target_user_id # <<>>
                 THEN IF is_user_in_records(target_user_id)
                      THEN LET s3 == Call(s2, F, "is_vacancy_description_recieved", target_user_id,
                                            is_vacancy_description_recieved(target_user_id))
                             IN  IF is_vacancy_description_recieved(target_user_id)
                                 THEN Call(Call(s3, F, "define_sourcing_criterias_triggered_by_admin_command", target_user_id, "ok"),
                                           F, "send_message_to_user",
                                           <<"Taks for analysing sourcing criterias is in task_queue for user", target_user_id>>, "ok")
                                 ELSE Raise(s3, "ValueError", <<"User does not have vacancy description received.", target_user_id>>)
                      ELSE Raise(s2, "ValueError", <<"User not found in records.", target_user_id>>)
                 ELSE Raise(s1, "ValueError", <<"Invalid command arguments.">>)
            ELSE Raise(s1, "ValueError", <<"Invalid number of arguments.">>)
    IN  Outcome(body, notify_admin_on_error("admin_anazlyze_sourcing_criterais_command", upd, F, body))

Run_admin_send_sourcing_criterais_to_user_command(upd, F) ==
    LET s1 == identify_and_check_admin(upd, F)
        args == upd.args
        target_user_id == args[1]
        s2 == Call(s1, F, "is_user_in_records", target_user_id,
                   is_user_in_records(target_user_id))
        body ==
            IF HasOneArg(args)
            THEN IF target_user_id # <<>>
                 THEN IF is_user_in_records(target_user_id)
                      THEN LET s3 == Call(s2, F, "is_vacancy_sourcing_criterias_recieved", target_user_id,
                                            is_vacancy_sourcing_criterias_recieved(target_user_id))
                             IN  IF is_vacancy_sourcing_criterias_recieved(target_user_id)
                                 THEN Call(Call(s3, F, "send_to_user_sourcing_criterias_triggered_by_admin_command", target_user_id, "ok"),
                                           F, "send_message_to_user",
                                           <<"Sourcing criterias sent to user", target_user_id>>, "ok")
                                 ELSE Raise(s3, "ValueError", <<"User does not have enough vacancy data for resume analysis.", target_user_id>>)
                      ELSE Raise(s2, "ValueError", <<"User not found in records.", target_user_id>>)
                 ELSE Raise(s1, "ValueError", <<"Invalid command arguments.">>)
            ELSE Raise(s1, "ValueError", <<"Invalid number of arguments.">>)
    IN  Outcome(body, notify_admin_on_error("admin_send_sourcing_criterais_to_user_command", upd, F, body))

\* bug: the delegate is called whatever is_vacancy_selected returns
Run_admin_update_negotiations_command_Ungated(upd, F) ==
    LET s1 == identify_and_check_admin(upd, F)
        args == upd.args
        target_user_id == args[1]
        s2 == Call(s1, F, "is_user_in_records", target_user_id,
                   is_user_in_records(target_user_id))
        body ==
            IF HasOneArg(args)
            THEN IF target_user_id # <<>>
                 THEN IF is_user_in_records(target_user_id)
                      THEN LET s3 == Call(s2, F, "is_vacancy_selected", target_user_id,
                                            is_vacancy_selected(target_user_id))
                             IN  IF TRUE
                                 THEN Call(Call(s3, F, "source_negotiations_triggered_by_admin_command", target_user_id, "ok"),
                                           F, "send_message_to_user",
                                           <<"Negotiations collection updated for user", target_user_id>>, "ok")
                                 ELSE Raise(s3, "ValueError", <<"User does not have enough vacancy data for resume analysis.", target_user_id>>)
                      ELSE Raise(s2, "ValueError", <<"User not found in records.", target_user_id>>)
                 ELSE Raise(s1, "ValueError", <<"Invalid command arguments.">>)
            ELSE Raise(s1, "ValueError", <<"Invalid number of arguments.">>)
    IN  Outcome(body, notify_admin_on_error("admin_update_negotiations_command", upd, F, body))


Run_admin_update_negotiations_command(upd, F) ==
    LET s1 == identify_and_check_admin(upd, F)
        args == upd.args
        target_user_id == args[1]
        s2 == Call(s1, F, "is_user_in_records", target_user_id,
                   is_user_in_records(target_user_id))
        body ==
            IF HasOneArg(args)
            THEN IF target_user_id # <<>>
                 THEN IF is_user_in_records(target_user_id)
                      THEN LET s3 == Call(s2, F, "is_vacancy_selected", target_user_id,
                                            is_vacancy_selected(target_user_id))
                             IN  IF is_vacancy_selected(target_user_id)
                                 THEN Call(Call(s3, F, "source_negotiations_triggered_by_admin_command", target_user_id, "ok"),
                                           F, "send_message_to_user",
                                           <<"Negotiations collection updated for user", target_user_id>>, "ok")
                                 ELSE Raise(s3, "ValueError", <<"User does not have enough vacancy data for resume analysis.", target_user_id>>)
                      ELSE Raise(s2, "ValueError", <<"User not found in records.", target_user_id>>)
                 ELSE Raise(s1, "ValueError", <<"Invalid command arguments.">>)
            ELSE Raise(s1, "ValueError", <<"Invalid number of arguments.">>)
    IN  Outcome(body, notify_admin_on_error("admin_update_negotiations_command", upd, F, body))

\* bug: nothing is sent to the caller after the delegate returned
Run_admin_get_fresh_resumes_command_NoConfirm(upd, F) ==
    LET s1 == identify_and_check_admin(upd, F)
        args == upd.args
        target_user_id == args[1]
        s2 == Call(s1, F, "is_user_in_records", target_user_id,
                   is_user_in_records(target_user_id))
        body ==
            IF HasOneArg(args)
            THEN IF target_user_id # <<>>
                 THEN IF is_user_in_records(target_user_id)
                      THEN LET s3 == Call(s2, F, "is_vacany_data_enough_for_resume_analysis", target_user_id,
                                            is_vacany_data_enough_for_resume_analysis(target_user_id))
                             IN  IF is_vacany_data_enough_for_resume_analysis(target_user_id)
                                 THEN Call(s3, F, "source_resumes_triggered_by_admin_command", target_user_id, "ok")
                                 ELSE Raise(s3, "ValueError", <<"User does not have enough vacancy data for resume analysis.", target_user_id>>)
                      ELSE Raise(s2, "ValueError", <<"User not found in records.", target_user_id>>)
                 ELSE Raise(s1, "ValueError", <<"Invalid command arguments.">>)
            ELSE Raise(s1, "ValueError", <<"Invalid number of arguments.">>)
    IN  Outcome(body, notify_admin_on_error("admin_get_fresh_resumes_command", upd, F, body))


Run_admin_get_fresh_resumes_command(upd, F) ==
    LET s1 == identify_and_check_admin(upd, F)
        args == upd.args
        target_user_id == args[1]
        s2 == Call(s1, F, "is_user_in_records", target_user_id,
                   is_user_in_records(target_user_id))
        body ==
            IF HasOneArg(args)
            THEN IF target_user_id # <<>>
                 THEN IF is_user_in_records(target_user_id)
                      THEN LET s3 == Call(s2, F, "is_vacany_data_enough_for_resume_analysis", target_user_id,
                                            is_vacany_data_enough_for_resume_analysis(target_user_id))
                             IN  IF is_vacany_data_enough_for_resume_analysis(target_user_id)
                                 THEN Call(Call(s3, F, "source_resumes_triggered_by_admin_command", target_user_id, "ok"),
                                           F, "send_message_to_user",
                                           <<"Fresh resumes collected for user", target_user_id>>, "ok")
                                 ELSE Raise(s3, "ValueError", <<"User does not have enough vacancy data for resume analysis.", target_user_id>>)
                      ELSE Raise(s2, "ValueError", <<"User not found in records.", target_user_id>>)
                 ELSE Raise(s1, "ValueError", <<"Invalid command arguments.">>)
            ELSE Raise(s1, "ValueError", <<"Invalid number of arguments.">>)
    IN  Outcome(body, notify_admin_on_error("admin_get_fresh_resumes_command", upd, F, body))

\* bug: the "started" message is sent when the analysis has already run
Run_admin_anazlyze_resumes_command_StartedLate(upd, F) ==
    LET s1 == identify_and_check_admin(upd, F)
        args == upd.args
        target_user_id == args[1]
        s2 == Call(s1, F, "is_user_in_records", target_user_id,
                   is_user_in_records(target_user_id))
        body ==
            IF HasOneArg(args)
            THEN IF target_user_id # <<>>
                 THEN IF is_user_in_records(target_user_id)
                      THEN LET s3 == Call(s2, F, "is_vacany_data_enough_for_resume_analysis", target_user_id,
                                            is_vacany_data_enough_for_resume_analysis(target_user_id))
                             IN  IF is_vacany_data_enough_for_resume_analysis(target_user_id)
                                 THEN Call(Call(Call(s3, F, "analyze_resume_triggered_by_admin_command", target_user_id, "ok"),
                                                F, "send_message_to_user",
                                                <<"Start creating tasks for analysis of the fresh resumes for user", target_user_id>>, "ok"),
                                           F, "send_message_to_user",
                                           <<"Analysis of fresh resumes is done for user", target_user_id>>, "ok")
                                 ELSE Raise(s3, "ValueError", <<"User does not have enough vacancy data for resume analysis.", target_user_id>>)
                      ELSE Raise(s2, "ValueError", <<"User not found in records.", target_user_id>>)
                 ELSE Raise(s1, "ValueError", <<"Invalid command arguments.">>)
            ELSE Raise(s1, "ValueError", <<"Invalid number of arguments.">>)
    IN  Outcome(body, notify_admin_on_error("admin_anazlyze_resumes_command", upd, F, body))


Run_admin_anazlyze_resumes_command(upd, F) ==
    LET s1 == identify_and_check_admin(upd, F)
        args == upd.args
        target_user_id == args[1]
        s2 == Call(s1, F, "is_user_in_records", target_user_id,
                   is_user_in_records(target_user_id))
        body ==
            IF HasOneArg(args)
            THEN IF target_user_id # <<>>
                 THEN IF is_user_in_records(target_user_id)
                      THEN LET s3 == Call(s2, F, "is_vacany_data_enough_for_resume_analysis", target_user_id,
                                            is_vacany_data_enough_for_resume_analysis(target_user_id))
                             IN  IF is_vacany_data_enough_for_resume_analysis(target_user_id)
                                 THEN Call(Call(Call(s3, F, "send_message_to_user",
                                                <<"Start creating tasks for analysis of the fresh resumes for user", target_user_id>>, "ok"), F, "analyze_resume_triggered_by_admin_command", target_user_id, "ok"),
                                           F, "send_message_to_user",
                                           <<"Analysis of fresh resumes is done for user", target_user_id>>, "ok")
                                 ELSE Raise(s3, "ValueError", <<"User does not have enough vacancy data for resume analysis.", target_user_id>>)
                      ELSE Raise(s2, "ValueError", <<"User not found in records.", target_user_id>>)
                 ELSE Raise(s1, "ValueError", <<"Invalid command arguments.">>)
            ELSE Raise(s1, "ValueError", <<"Invalid number of arguments.">>)
    IN  Outcome(body, notify_admin_on_error("admin_anazlyze_resumes_command", upd, F, body))

\* bug: the delegate is given the id of the caller, not of the target user
Run_admin_update_resume_records_with_applicants_video_status_command_CallerId(upd, F) ==
    LET s1 == identify_and_check_admin(upd, F)
        args == upd.args
        target_user_id == args[1]
        s2 == Call(s1, F, "is_user_in_records", target_user_id,
                   is_user_in_records(target_user_id))
        body ==
            IF HasOneArg(args)
            THEN IF target_user_id # <<>>
                 THEN IF is_user_in_records(target_user_id)
                      THEN LET s3 == Call(s2, F, "is_vacany_data_enough_for_resume_analysis", target_user_id,
                                            is_vacany_data_enough_for_resume_analysis(target_user_id))
                             IN  IF is_vacany_data_enough_for_resume_analysis(target_user_id)
                                 THEN Call(Call(Call(s3, F, "get_target_vacancy_id_from_records", target_user_id,
                                                get_target_vacancy_id_from_records(target_user_id)), F, "update_resume_records_with_fresh_video_from_applicants_triggered_by_admin_command", [bot_user_id |-> str(upd.from), vacancy_id |-> get_target_vacancy_id_from_records(target_user_id)], "ok"),
                                           F, "send_message_to_user",
                                           <<"Resume records updated with fresh videos from applicants for user", target_user_id>>, "ok")
                                 ELSE Raise(s3, "ValueError", <<"User does not have enough vacancy data for resume analysis.", target_user_id>>)
                      ELSE Raise(s2, "ValueError", <<"User not found in records.", target_user_id>>)
                 ELSE Raise(s1, "ValueError", <<"Invalid command arguments.">>)
            ELSE Raise(s1, "ValueError", <<"Invalid number of arguments.">>)
    IN  Outcome(body, notify_admin_on_error("admin_update_resume_records_with_applicants_video_status_command", upd, F, body))


Run_admin_update_resume_records_with_applicants_video_status_command(upd, F) ==
    LET s1 == identify_and_check_admin(upd, F)
        args == upd.args
        target_user_id == args[1]
        s2 == Call(s1, F, "is_user_in_records", target_user_id,
                   is_user_in_records(target_user_id))
        body ==
            IF HasOneArg(args)
            THEN IF target_user_id # <<>>
                 THEN IF is_user_in_records(target_user_id)
                      THEN LET s3 == Call(s2, F, "is_vacany_data_enough_for_resume_analysis", target_user_id,
                                            is_vacany_data_enough_for_resume_analysis(target_user_id))
                             IN  IF is_vacany_data_enough_for_resume_analysis(target_user_id)
                                 THEN Call(Call(Call(s3, F, "get_target_vacancy_id_from_records", target_user_id,
                                                get_target_vacancy_id_from_records(target_user_id)), F, "update_resume_records_with_fresh_video_from_applicants_triggered_by_admin_command", [bot_user_id |-> target_user_id, vacancy_id |-> get_target_vacancy_id_from_records(target_user_id)], "ok"),
                                           F, "send_message_to_user",
                                           <<"Resume records updated with fresh videos from applicants for user", target_user_id>>, "ok")
                                 ELSE Raise(s3, "ValueError", <<"User does not have enough vacancy data for resume analysis.", target_user_id>>)
                      ELSE Raise(s2, "ValueError", <<"User not found in records.", target_user_id>>)
                 ELSE Raise(s1, "ValueError", <<"Invalid command arguments.">>)
            ELSE Raise(s1, "ValueError", <<"Invalid number of arguments.">>)
    IN  Outcome(body, notify_admin_on_error("admin_update_resume_records_with_applicants_video_status_command", upd, F, body))

Run_admin_recommend_resumes_command(upd, F) ==
    LET s1 == identify_and_check_admin(upd, F)
        args == upd.args
        target_user_id == args[1]
        s2 == Call(s1, F, "is_user_in_records", target_user_id,
                   is_user_in_records(target_user_id))
        body ==
            IF HasOneArg(args)
            THEN IF target_user_id # <<>>
                 THEN IF is_user_in_records(target_user_id)
                      THEN LET s3 == Call(s2, F, "is_vacany_data_enough_for_resume_analysis", target_user_id,
                                            is_vacany_data_enough_for_resume_analysis(target_user_id))
                             IN  IF is_vacany_data_enough_for_resume_analysis(target_user_id)
                                 THEN Call(Call(s3, F, "recommend_resumes_triggered_by_admin_command", target_user_id, "ok"),
                                           F, "send_message_to_user",
                                           <<"Recommending resumes is triggered for user {target_user_id}.">>, "ok")
                                 ELSE Raise(s3, "ValueError", <<"User does not have enough vacancy data for resume analysis.", target_user_id>>)
                      ELSE Raise(s2, "ValueError", <<"User not found in records.", target_user_id>>)
                 ELSE Raise(s1, "ValueError", <<"Invalid command arguments.">>)
            ELSE Raise(s1, "ValueError", <<"Invalid number of arguments.">>)
    IN  Outcome(body, notify_admin_on_error("admin_recommend_resumes_command", upd, F, body))

Run_admin_send_message_command(upd, F) ==
    LET s1 == identify_and_check_admin(upd, F)
        args == upd.args
        target_user_id == args[1]
        message_text == join(Tail(args))
        target_user_id_int == int(target_user_id)
        sent == Call(Call(s1, F, "bot.send_message",
                          [chat_id |-> target_user_id_int.val, text |-> message_text], "ok"),
                     F, "send_message_to_user",
                     <<"Message sent to user", target_user_id, message_text>>, "ok")
        told == Call(Caught(sent), F, "send_message_to_user",
                     <<"Failed to send message to user", target_user_id, sent.exc.msg>>, "ok")
        body ==
            IF Len(args) < 2
            THEN Raise(s1, "ValueError", <<"Invalid number of arguments.">>)
            ELSE IF ~target_user_id_int.ok
            THEN Raise(s1, "ValueError", <<"Invalid command arguments.">>)
            ELSE IF upd.application.present /\ upd.application.bot
            THEN IF Live(s1) /\ Pending(sent)
                 THEN IF Pending(told) THEN told ELSE [told EXCEPT !.exc = sent.exc]
                 ELSE sent
            ELSE Raise(s1, "ValueError", <<"Application or bot instance not available">>)
        text == [handler |-> "admin_send_message_command", e |-> body.exc.msg,
                 admin_id |-> bot_user_id_or_unknown(upd, body)]
        s5 == Call(Caught(body), F, "send_message_to_user", FAIL_TECHNICAL_SUPPORT_TEXT, "ok")
        final ==
            IF ~Pending(body) THEN body
            ELSE IF upd.application.present
            THEN send_message_to_admin(s5, F, upd.application, text)
            ELSE s5
    IN  Outcome(body, final)

Run_admin_pull_file_command(upd, F) ==
    LET s1 == identify_and_check_admin(upd, F)
        args == upd.args
        file_relative_path == args[1]
        data_dir == Path(USERS_DATA_DIR)
        file_path == PathJoin(data_dir, file_relative_path)
        file_extension == PathSuffix(file_path)
        s2 == Call(s1, F, "Path.exists", file_path, exists(file_path))
        sent == Call(Call(s2, F, "open", file_path, "ok"),
                     F, "bot.send_document", file_path, "ok")
        body ==
            IF Len(args) # 1
            THEN Raise(s1, "ValueError", <<"Invalid number of arguments.">>)
            ELSE IF ~InList(file_extension, valid_extensions)
            THEN Raise(s1, "ValueError", <<"Invalid file extension. Valid:", valid_extensions>>)
            ELSE IF Pending(s2) THEN s2
            ELSE IF ~exists(file_path)
            THEN Raise(s2, "FileNotFoundError",
                       <<"Invalid file relative path. File not found", file_relative_path>>)
            ELSE IF upd.application.present /\ upd.application.bot
            THEN IF Live(s2) /\ Pending(sent)
                 THEN [sent EXCEPT !.exc = [type |-> "TelegramError",
                                            msg |-> <<"Failed to send file", file_path, sent.exc.msg>>]]
                 ELSE sent
            ELSE Raise(s2, "RuntimeError", <<"Application or bot instance not available">>)
    IN  Outcome(body, notify_admin_on_error("admin_pull_file_command", upd, F, body))

----------------------------------------------------------------------------
(* Inputs *)

\* what get_tg_user_data_attribute_from_update_object(update, "id") returns
TgIds == { [kind |-> "int", n |-> 1], [kind |-> "int", n |-> 2],
           [kind |-> "empty_str", n |-> 0] }

\* context.application as python-telegram-bot hands it to a handler
Applications == { [present |-> TRUE, bot |-> TRUE] }

\* values of the ADMIN_ID environment variable; "" when unset
AdminIds == { <<>>, S_1, S_abc }

RECURSIVE SeqsUpTo(_, _)
SeqsUpTo(S, n) ==
    IF n = 0 THEN { <<>> }
    ELSE LET shorter == SeqsUpTo(S, n - 1)
         IN  shorter \cup { Append(q, x) : q \in { r \in shorter : Len(r) = n - 1 }, x \in S }

\* context.args: the words after the command, none of them empty
UserArgs == SeqsUpTo({ S_555, S_abc }, MaxArgs)

\* admin_send_message takes the target and at least one word of text
MessageArgs == SeqsUpTo({ S_555, S_abc, S_hi }, MaxArgs + 1)

FileArgs == SeqsUpTo({ S_a_log, S_n_log, S_x_exe, S_up_b_log }, MaxArgs)

Updates(Args) == [from : TgIds, args : Args, application : Applications]

FaultSets == { F \in SUBSET (1..MaxCalls) : Cardinality(F) <= MaxFaults }

\* a user record as the readiness predicates read it: every flag occurs
\* set and unset, alone and together with the others
UserRecords ==
    { r \in [vacancy_description : BOOLEAN, sourcing_criterias : BOOLEAN,
             vacancy_selected : BOOLEAN, enough_data : BOOLEAN, vacancy_id : {"v1", "v2"}] :
        LET n == Cardinality({ f \in {"vacancy_description", "sourcing_criterias",
                                      "vacancy_selected", "enough_data"} : r[f] })
        IN  n \in {0, 1, 4} }

\* the records store: keyed by the users' Telegram ids
RecordStores == { <<>> } \cup { (S_555 :> r) : r \in UserRecords }

NoUpdate == [from |-> [kind |-> "None", n |-> 0], args |-> <<>>,
             application |-> [present |-> FALSE, bot |-> FALSE]]

NoOutcome == [caught |-> NoExc, propagated |-> NoExc]

----------------------------------------------------------------------------
(* Specification *)

Init ==
    /\ ADMIN_ID \in AdminIds
    /\ records \in RecordStores
    /\ status = "idle"
    /\ update = NoUpdate
    /\ calls = <<>>
    /\ result = NoOutcome

\* the dispatcher runs handler `name` on an inbound update
Dispatch(name, upd, out) ==
    /\ status' = name
    /\ update' = upd
    /\ calls' = out.calls
    /\ result' = [caught |-> out.caught, propagated |-> out.propagated]
    /\ UNCHANGED <<ADMIN_ID, records>>

admin_get_users_command ==
    /\ status = "idle"
    /\ \E upd \in Updates(UserArgs), F \in FaultSets :
        Dispatch("admin_get_users_command", upd, Run_admin_get_users_command(upd, F))

admin_get_user_status_command ==
    /\ status = "idle"
    /\ \E upd \in Updates(UserArgs), F \in FaultSets :
        Dispatch("admin_get_user_status_command", upd,
                 Run_admin_get_user_status_command(upd, F))

admin_anazlyze_sourcing_criterais_command ==
    /\ status = "idle"
    /\ \E upd \in Updates(UserArgs), F \in FaultSets :
        Dispatch("admin_anazlyze_sourcing_criterais_command", upd,
                 Run_admin_anazlyze_sourcing_criterais_command(upd, F))

admin_send_sourcing_criterais_to_user_command ==
    /\ status = "idle"
    /\ \E upd \in Updates(UserArgs), F \in FaultSets :
        Dispatch("admin_send_sourcing_criterais_to_user_command", upd,
                 Run_admin_send_sourcing_criterais_to_user_command(upd, F))

admin_update_negotiations_command ==
    /\ status = "idle"
    /\ \E upd \in Updates(UserArgs), F \in FaultSets :
        Dispatch("admin_update_negotiations_command", upd,
                 Run_admin_update_negotiations_command(upd, F))

admin_get_fresh_resumes_command ==
    /\ status = "idle"
    /\ \E upd \in Updates(UserArgs), F \in FaultSets :
        Dispatch("admin_get_fresh_resumes_command", upd,
                 Run_admin_get_fresh_resumes_command(upd, F))

admin_anazlyze_resumes_command ==
    /\ status = "idle"
    /\ \E upd \in Updates(UserArgs), F \in FaultSets :
        Dispatch("admin_anazlyze_resumes_command", upd,
                 Run_admin_anazlyze_resumes_command(upd, F))

admin_update_resume_records_with_applicants_video_status_command ==
    /\ status = "idle"
    /\ \E upd \in Updates(UserArgs), F \in FaultSets :
        Dispatch("admin_update_resume_records_with_applicants_video_status_command", upd,
                 Run_admin_update_resume_records_with_applicants_video_status_command(upd, F))

admin_recommend_resumes_command ==
    /\ status = "idle"
    /\ \E upd \in Updates(UserArgs), F \in FaultSets :
        Dispatch("admin_recommend_resumes_command", upd,
                 Run_admin_recommend_resumes_command(upd, F))

admin_send_message_command ==
    /\ status = "idle"
    /\ \E upd \in Updates(MessageArgs), F \in FaultSets :
        Dispatch("admin_send_message_command", upd, Run_admin_send_message_command(upd, F))

admin_pull_file_command ==
    /\ status = "idle"
    /\ \E upd \in Updates(FileArgs), F \in FaultSets :
        Dispatch("admin_pull_file_command", upd, Run_admin_pull_file_command(upd, F))

\* the handler's coroutine is finished; the dispatcher takes the next update
NextUpdate ==
    /\ status # "idle"
    /\ status' = "idle"
    /\ update' = NoUpdate
    /\ calls' = <<>>
    /\ result' = NoOutcome
    /\ UNCHANGED <<ADMIN_ID, records>>

Next ==
    \/ admin_get_users_command
    \/ admin_get_user_status_command
    \/ admin_anazlyze_sourcing_criterais_command
    \/ admin_send_sourcing_criterais_to_user_command
    \/ admin_update_negotiations_command
    \/ admin_get_fresh_resumes_command
    \/ admin_anazlyze_resumes_command
    \/ admin_update_resume_records_with_applicants_video_status_command
    \/ admin_recommend_resumes_command
    \/ admin_send_message_command
    \/ admin_pull_file_command
    \/ NextUpdate

Spec == Init /\ [][Next]_vars

TypeOK ==
    /\ ADMIN_ID \in AdminIds
    /\ records \in RecordStores
    /\ status \in STRING
    /\ Len(calls) <= MaxCalls

----------------------------------------------------------------------------
(* Vocabulary of the properties *)

\* a handler has run on the update
Ran == status # "idle"

\* identity resolution returned: bot_user_id is bound
IdResolved == Ran /\ Len(calls) >= 1 /\ ~calls[1].raised

\* the resolved caller id
CallerId == str(update.from)

NonAdminCaller == IdResolved /\ CallerId # ADMIN_ID

AdminCaller == IdResolved /\ ADMIN_ID # <<>> /\ CallerId = ADMIN_ID

RecordLookups ==
    { "is_user_in_records", "get_list_of_users_from_records",
      "get_target_vacancy_id_from_records" }

ReadinessPredicates ==
    { "is_vacancy_description_recieved", "is_vacancy_sourcing_criterias_recieved",
      "is_vacancy_selected", "is_vacany_data_enough_for_resume_analysis" }

PipelineDelegates ==
    { "inform_admin_about_user_readiness",
      "define_sourcing_criterias_triggered_by_admin_command",
      "send_to_user_sourcing_criterias_triggered_by_admin_command",
      "source_negotiations_triggered_by_admin_command",
      "source_resumes_triggered_by_admin_command",
      "analyze_resume_triggered_by_admin_command",
      "update_resume_records_with_fresh_video_from_applicants_triggered_by_admin_command",
      "recommend_resumes_triggered_by_admin_command" }

FileCalls == { "Path.exists", "open", "bot.send_document" }

OneUserIdCommands ==
    { "admin_get_user_status_command", "admin_anazlyze_sourcing_criterais_command",
      "admin_send_sourcing_criterais_to_user_command", "admin_update_negotiations_command",
      "admin_get_fresh_resumes_command", "admin_anazlyze_resumes_command",
      "admin_update_resume_records_with_applicants_video_status_command",
      "admin_recommend_resumes_command" }

\* positions of the calls to op
At(op) == { i \in DOMAIN calls : calls[i].op = op }

\* bot.send_message made by send_message_to_admin follows its entry
IsAdminSend(i) ==
    calls[i].op = "bot.send_message" /\ i > 1 /\ calls[i - 1].op = "send_message_to_admin"

\* bot.send_message made by admin_send_message_command to the target chat
IsRelay(i) == calls[i].op = "bot.send_message" /\ ~IsAdminSend(i)

\* the handler sent the caller the fixed unauthorized text as its first send
UnauthorizedSent ==
    /\ Len(calls) >= 2
    /\ calls[2].op = "send_message_to_user"
    /\ calls[2].arg = <<"FAIL_TO_IDENTIFY_USER_AS_ADMIN_TEXT">>

\* nothing behind the authorization gate was touched
NothingBehindGate ==
    \A i \in DOMAIN calls :
        /\ calls[i].op \notin RecordLookups
        /\ calls[i].op \notin ReadinessPredicates
        /\ calls[i].op \notin PipelineDelegates
        /\ calls[i].op \notin FileCalls
        /\ ~IsRelay(i)

AdminNotifications == Cardinality(At("send_message_to_admin"))

----------------------------------------------------------------------------
(* Properties *)

\* C1: whatever the handler, a caller whose resolved id differs from ADMIN_ID
\* is sent the fixed unauthorized text, and the invocation makes no record
\* lookup, readiness check, pipeline call, relay send or file call; when that
\* send returns the handler returns at once.
C1_NonAdminFailsClosed ==
    NonAdminCaller =>
        /\ UnauthorizedSent
        /\ NothingBehindGate
        /\ ~calls[2].raised =>
              Len(calls) = 2 /\ result.caught.type = "none" /\ result.propagated.type = "none"

C1_Witness ==
    /\ status = "admin_pull_file_command"
    /\ NonAdminCaller
    /\ ADMIN_ID = S_1
    /\ update.args = <<S_a_log>>
    /\ Len(calls) = 2
    /\ ~calls[2].raised

\* C3: with ADMIN_ID unset or empty nobody is authorized, the caller whose id
\* is the empty string included: every handler takes the unauthorized branch
\* and touches nothing behind the gate.
C3_UnsetAdminIdAuthorizesNobody ==
    (IdResolved /\ ADMIN_ID = <<>>) => UnauthorizedSent /\ NothingBehindGate

C3_Witness ==
    /\ status = "admin_get_users_command"
    /\ IdResolved
    /\ ADMIN_ID = <<>>
    /\ CallerId = <<>>
    /\ Len(calls) = 2

\* C2 as stated: a non-admin caller gets the fixed unauthorized text and
\* send_message_to_admin is not invoked, not even when that send fails.
C2_AdminChannelNeverTouched ==
    NonAdminCaller => UnauthorizedSent /\ AdminNotifications = 0

\* C2 amended: a non-admin caller gets the fixed unauthorized text; when that
\* send returns, nothing else is sent and send_message_to_admin is not
\* invoked; when that send raises, the except block of the handler runs:
\* send_message_to_admin is invoked once, in admin_send_message_command after
\* FAIL_TECHNICAL_SUPPORT_TEXT is sent to the caller and only if that send
\* returns.
C2_AdminChannelTouchedOnlyOnSendFailure ==
    NonAdminCaller =>
        /\ UnauthorizedSent
        /\ ~calls[2].raised => Len(calls) = 2 /\ AdminNotifications = 0
        /\ (calls[2].raised /\ status # "admin_send_message_command") =>
              AdminNotifications = 1 /\ calls[3].op = "send_message_to_admin"
        /\ (calls[2].raised /\ status = "admin_send_message_command") =>
              /\ calls[3].op = "send_message_to_user"
              /\ calls[3].arg = <<"FAIL_TECHNICAL_SUPPORT_TEXT">>
              /\ AdminNotifications = (IF calls[3].raised THEN 0 ELSE 1)

C2_Witness ==
    /\ status = "admin_get_users_command"
    /\ NonAdminCaller
    /\ ADMIN_ID = S_1
    /\ CallerId = S_2
    /\ Len(calls) = 2
    /\ ~calls[2].raised

ReadinessGated ==
    [ admin_anazlyze_sourcing_criterais_command |->
          [pred |-> "is_vacancy_description_recieved",
           delegate |-> "define_sourcing_criterias_triggered_by_admin_command",
           between |-> "none"],
      admin_update_negotiations_command |->
          [pred |-> "is_vacancy_selected",
           delegate |-> "source_negotiations_triggered_by_admin_command",
           between |-> "none"],
      admin_get_fresh_resumes_command |->
          [pred |-> "is_vacany_data_enough_for_resume_analysis",
           delegate |-> "source_resumes_triggered_by_admin_command",
           between |-> "none"],
      admin_anazlyze_resumes_command |->
          [pred |-> "is_vacany_data_enough_for_resume_analysis",
           delegate |-> "analyze_resume_triggered_by_admin_command",
           between |-> "send_message_to_user"],
      admin_update_resume_records_with_applicants_video_status_command |->
          [pred |-> "is_vacany_data_enough_for_resume_analysis",
           delegate |-> "update_resume_records_with_fresh_video_from_applicants_triggered_by_admin_command",
           between |-> "get_target_vacancy_id_from_records"],
      admin_recommend_resumes_command |->
          [pred |-> "is_vacany_data_enough_for_resume_analysis",
           delegate |-> "recommend_resumes_triggered_by_admin_command",
           between |-> "none"] ]

\* the predicate of the command returned true at position j
PredicateTrueAt(j) ==
    /\ j \in At(ReadinessGated[status].pred)
    /\ ~calls[j].raised
    /\ calls[j].res = TRUE

\* the call the handler makes between predicate and delegate raised
BetweenRaisedAfter(j) ==
    /\ Len(calls) > j
    /\ calls[j + 1].op = ReadinessGated[status].between
    /\ calls[j + 1].raised

\* C5 as stated: in an admin invocation of a readiness-gated command the
\* delegate is called if and only if the readiness predicate returned true.
C5_DelegateIffPredicate ==
    (status \in DOMAIN ReadinessGated /\ AdminCaller) =>
        (At(ReadinessGated[status].delegate) # {} <=> \E j \in DOMAIN calls : PredicateTrueAt(j))

\* C5 amended: in an admin invocation of a readiness-gated command the
\* delegate is called, once and for the user named by the argument, if and
\* only if the readiness predicate returned true and the call the handler
\* makes between the two (the "started" message of resume analysis, the
\* vacancy id lookup of the video status update) did not raise.
C5_DelegateIffPredicateAndNoFailureBetween ==
    (status \in DOMAIN ReadinessGated /\ AdminCaller) =>
        /\ At(ReadinessGated[status].delegate) # {} <=>
              \E j \in DOMAIN calls : PredicateTrueAt(j) /\ ~BetweenRaisedAfter(j)
        /\ Cardinality(At(ReadinessGated[status].delegate)) <= 1
        /\ \A i \in At(ReadinessGated[status].pred) : calls[i].arg = update.args[1]
        /\ \A i \in At(ReadinessGated[status].delegate) :
              update.args[1] =
                  (IF ReadinessGated[status].between = "get_target_vacancy_id_from_records"
                   THEN calls[i].arg.bot_user_id ELSE calls[i].arg)

C5_Witness ==
    /\ status = "admin_update_negotiations_command"
    /\ AdminCaller
    /\ update.args = <<S_555>>
    /\ \E j \in DOMAIN calls : PredicateTrueAt(j)
    /\ At("source_negotiations_triggered_by_admin_command") # {}

\* the path admin_pull_file_command builds from its argument
RequestedPath == PathJoin(Path(USERS_DATA_DIR), update.args[1])

\* the suffix of the requested path is .log, .json or .mp4
AllowedSuffix ==
    PathSuffix(RequestedPath) \in
        { <<".", "l", "o", "g">>, <<".", "j", "s", "o", "n">>, <<".", "m", "p", "4">> }

PullFileByAdmin ==
    status = "admin_pull_file_command" /\ AdminCaller /\ Len(update.args) = 1

\* C6: admin_pull_file_command given a path whose suffix is not .log, .json or
\* .mp4 makes no file system call at all (no existence check, no open, no
\* send_document), raises the ValueError that lists the valid extensions and
\* reports it to the admin.
C6_BadExtensionNeverOpened ==
    (PullFileByAdmin /\ ~AllowedSuffix) =>
        /\ \A i \in DOMAIN calls : calls[i].op \notin FileCalls
        /\ result.caught.type = "ValueError"
        /\ result.caught.msg[1] = "Invalid file extension. Valid:"
        /\ result.caught.msg[2] =
              << <<".", "l", "o", "g">>, <<".", "j", "s", "o", "n">>, <<".", "m", "p", "4">> >>
        /\ AdminNotifications = 1
        /\ \A i \in At("send_message_to_admin") : calls[i].arg.e = result.caught.msg

C6_Witness ==
    /\ PullFileByAdmin
    /\ update.args = <<S_x_exe>>
    /\ exists(RequestedPath)
    /\ result.caught.type = "ValueError"
    /\ AdminNotifications = 1

\* C7: admin_pull_file_command streams a file only if it lies under the data
\* root; a requested path that resolves outside the data root, or that does
\* not exist, is reported as not found and no document is sent.
C7_OnlyFilesUnderDataRoot ==
    status = "admin_pull_file_command" =>
        /\ \A i \in At("bot.send_document") : UnderDataRoot(calls[i].arg)
        /\ (/\ PullFileByAdmin
            /\ AllowedSuffix
            /\ ~UnderDataRoot(RequestedPath) \/ ~exists(RequestedPath)
            /\ \A i \in At("Path.exists") : ~calls[i].raised) =>
              /\ result.caught.type = "FileNotFoundError"
              /\ At("bot.send_document") = {}

\* C8: no exception leaves a handler: whatever raised, it is caught and
\* send_message_to_admin is called with the exception text and the caller id,
\* or "unknown" when identity resolution failed.
C8_NothingPropagates ==
    Ran =>
        /\ result.propagated.type = "none"
        /\ result.caught.type # "none" =>
              \E i \in At("send_message_to_admin") :
                  /\ calls[i].arg.e = result.caught.msg
                  /\ calls[i].arg.admin_id = (IF IdResolved THEN CallerId ELSE S_unknown)

\* no call that raised is made a second time
NothingRetried ==
    \A i, j \in DOMAIN calls :
        (i < j /\ calls[i].raised /\ calls[i].op = calls[j].op) =>
            \/ calls[i].op = "send_message_to_user" /\ calls[i].arg[1] # calls[j].arg[1]
            \/ calls[i].op = "bot.send_message" /\ IsRelay(i) /\ IsAdminSend(j)

\* C9: a failing invocation is terminal and reported once: nothing that raised
\* is called again and send_message_to_admin is called exactly once.
C9_FailureReportedExactlyOnce ==
    (Ran /\ result.caught.type # "none") => NothingRetried /\ AdminNotifications = 1

\* the handler raised one of its own validation errors
ValidationFailure == result.caught.type \in {"ValueError", "FileNotFoundError"}

\* sends to the calling chat of a line that reports a failure
FailureLines ==
    { i \in At("send_message_to_user") :
        calls[i].arg[1] \in {"FAIL_TECHNICAL_SUPPORT_TEXT", "Failed to send message to user"} }

\* the transport send of the relayed message or of the document raised
DeliveryFailed ==
    \E i \in DOMAIN calls :
        calls[i].raised /\ (IsRelay(i) \/ calls[i].op = "bot.send_document")

\* C10 as stated: a validation failure sends nothing to the calling chat, and
\* a failure line reaches the caller only from the message relay and the file
\* pull commands and only when the delivery itself failed.
C10_ValidationFailuresSilentToCaller ==
    Ran =>
        /\ ValidationFailure => At("send_message_to_user") = {}
        /\ FailureLines # {} =>
              /\ status \in {"admin_send_message_command", "admin_pull_file_command"}
              /\ DeliveryFailed

\* C10 amended: in every handler but admin_send_message_command a validation
\* failure sends nothing to the calling chat and no failure of any kind sends
\* the caller a failure line, not even a failed delivery of the pulled file;
\* admin_send_message_command sends the caller FAIL_TECHNICAL_SUPPORT_TEXT
\* once after every failure, validation failures included, and before it the
\* delivery failure line exactly when the relay send or the confirmation that
\* follows it raised.
C10_OnlyMessageRelayTellsCaller ==
    Ran =>
        /\ status # "admin_send_message_command" =>
              /\ FailureLines = {}
              /\ ValidationFailure => At("send_message_to_user") = {}
        /\ status = "admin_send_message_command" =>
              /\ result.caught.type = "none" => FailureLines = {}
              /\ result.caught.type # "none" =>
                    /\ Cardinality({ i \in FailureLines :
                           calls[i].arg[1] = "FAIL_TECHNICAL_SUPPORT_TEXT" }) = 1
                    /\ (\E i \in FailureLines :
                           calls[i].arg[1] = "Failed to send message to user")
                       <=> (\E i \in DOMAIN calls :
                               /\ IsRelay(i)
                               /\ \/ calls[i].raised
                                  \/ /\ Len(calls) > i
                                     /\ calls[i + 1].op = "send_message_to_user"
                                     /\ calls[i + 1].arg[1] = "Message sent to user"
                                     /\ calls[i + 1].raised)

C10_Witness ==
    /\ status = "admin_send_message_command"
    /\ AdminCaller
    /\ update.args = <<S_abc, S_hi>>
    /\ result.caught.type = "ValueError"
    /\ \E i \in FailureLines : ~calls[i].raised
    /\ AdminNotifications = 1

\* what each command does once its checks have passed: the call that does the
\* work and the text it then sends to the invoking chat
CommandWork ==
    [ admin_get_users_command |->
          [delegate |-> "get_list_of_users_from_records", confirmation |-> "List of users:"],
      admin_get_user_status_command |->
          [delegate |-> "inform_admin_about_user_readiness", confirmation |-> "none"],
      admin_anazlyze_sourcing_criterais_command |->
          [delegate |-> "define_sourcing_criterias_triggered_by_admin_command",
           confirmation |-> "Taks for analysing sourcing criterias is in task_queue for user"],
      admin_send_sourcing_criterais_to_user_command |->
          [delegate |-> "send_to_user_sourcing_criterias_triggered_by_admin_command",
           confirmation |-> "Sourcing criterias sent to user"],
      admin_update_negotiations_command |->
          [delegate |-> "source_negotiations_triggered_by_admin_command",
           confirmation |-> "Negotiations collection updated for user"],
      admin_get_fresh_resumes_command |->
          [delegate |-> "source_resumes_triggered_by_admin_command",
           confirmation |-> "Fresh resumes collected for user"],
      admin_anazlyze_resumes_command |->
          [delegate |-> "analyze_resume_triggered_by_admin_command",
           confirmation |-> "Analysis of fresh resumes is done for user"],
      admin_update_resume_records_with_applicants_video_status_command |->
          [delegate |-> "update_resume_records_with_fresh_video_from_applicants_triggered_by_admin_command",
           confirmation |-> "Resume records updated with fresh videos from applicants for user"],
      admin_recommend_resumes_command |->
          [delegate |-> "recommend_resumes_triggered_by_admin_command",
           confirmation |-> "Recommending resumes is triggered for user {target_user_id}."],
      admin_send_message_command |->
          [delegate |-> "bot.send_message", confirmation |-> "Message sent to user"],
      admin_pull_file_command |->
          [delegate |-> "bot.send_document", confirmation |-> "none"] ]

\* the work of the command is the call at position i of the invocation
WorkAt(i) ==
    /\ i \in DOMAIN calls
    /\ calls[i].op = CommandWork[status].delegate
    /\ calls[i].op = "bot.send_message" => IsRelay(i)

\* the confirmation of the command is sent right after position i, and it is
\* the last thing the handler does when it is delivered
ConfirmedAfter(i) ==
    /\ Len(calls) > i
    /\ calls[i + 1].op = "send_message_to_user"
    /\ calls[i + 1].arg[1] = CommandWork[status].confirmation
    /\ ~calls[i + 1].raised => Len(calls) = i + 1 /\ result.caught.type = "none"

\* C11 as stated: in every command, an admin invocation that passed the
\* checks and whose delegate returned ends with a confirmation message sent
\* to the invoking chat.
C11_EveryCommandConfirms ==
    (Ran /\ AdminCaller) =>
        \A i \in DOMAIN calls : (WorkAt(i) /\ ~calls[i].raised) => ConfirmedAfter(i)

\* C11 amended: in every command but admin_get_user_status_command and
\* admin_pull_file_command, an admin invocation that passed the checks and
\* whose delegate returned ends with a confirmation message sent to the
\* invoking chat; those two send the caller no message: the first ends when
\* inform_admin_about_user_readiness returns, the second when the document
\* is sent.
C11_ConfirmsExceptStatusAndPullFile ==
    (Ran /\ AdminCaller) =>
        \A i \in DOMAIN calls : (WorkAt(i) /\ ~calls[i].raised) =>
            IF CommandWork[status].confirmation # "none"
            THEN ConfirmedAfter(i)
            ELSE /\ Len(calls) = i
                 /\ At("send_message_to_user") = {}
                 /\ result.caught.type = "none"

C11_Witness ==
    /\ status = "admin_get_fresh_resumes_command"
    /\ AdminCaller
    /\ update.args = <<S_555>>
    /\ \E i \in DOMAIN calls : WorkAt(i) /\ ~calls[i].raised /\ ConfirmedAfter(i)
    /\ ~calls[Len(calls)].raised

\* the user a pipeline call was made for
PipelineUser(i) ==
    IF calls[i].op = "update_resume_records_with_fresh_video_from_applicants_triggered_by_admin_command"
    THEN calls[i].arg.bot_user_id
    ELSE calls[i].arg

PipelineCalls == { i \in DOMAIN calls : calls[i].op \in PipelineDelegates }

\* C12: a successful admin invocation of a command that targets a user calls
\* exactly one pipeline operation, the one of that command, for the user id
\* given as the argument; the video status command passes with it the vacancy
\* id that get_target_vacancy_id_from_records returned for that same user in
\* the call just before.
C12_OnePipelineCallForTheTarget ==
    (status \in OneUserIdCommands /\ AdminCaller /\ result.caught.type = "none") =>
        /\ Cardinality(PipelineCalls) = 1
        /\ \A i \in PipelineCalls :
              /\ calls[i].op = CommandWork[status].delegate
              /\ PipelineUser(i) = update.args[1]
              /\ status = "admin_update_resume_records_with_applicants_video_status_command" =>
                    /\ calls[i - 1].op = "get_target_vacancy_id_from_records"
                    /\ calls[i - 1].arg = update.args[1]
                    /\ ~calls[i - 1].raised
                    /\ calls[i].arg.vacancy_id = calls[i - 1].res
                    /\ Cardinality(At("get_target_vacancy_id_from_records")) = 1

C12_Witness ==
    /\ status = "admin_update_resume_records_with_applicants_video_status_command"
    /\ AdminCaller
    /\ result.caught.type = "none"
    /\ update.args = <<S_555>>
    /\ \E i \in PipelineCalls : calls[i].arg.vacancy_id = "v2" /\ ~calls[i].raised

\* text is the words written one after the other with one space between
\* neighbours
RECURSIVE SpaceSeparated(_, _)
SpaceSeparated(text, words) ==
    IF Len(words) = 0 THEN text = <<>>
    ELSE LET last == words[Len(words)]
             cut == Len(text) - Len(last)
         IN  /\ cut >= 0
             /\ SubSeq(text, cut + 1, Len(text)) = last
             /\ IF Len(words) = 1 THEN cut = 0
                ELSE /\ cut >= 1
                     /\ text[cut] = " "
                     /\ SpaceSeparated(SubSeq(text, 1, cut - 1),
                                       SubSeq(words, 1, Len(words) - 1))

Relays == { i \in DOMAIN calls : IsRelay(i) }

\* C13: admin_send_message by the admin with a numeric first argument and at
\* least one more: the transport is asked exactly once to send to the integer
\* value of the first argument the text made of the remaining arguments
\* joined by single spaces; when that send returns, the caller is next sent
\* the confirmation with the same target and text; the records are never
\* consulted.
C13_RelaySendsJoinedText ==
    (/\ status = "admin_send_message_command"
     /\ AdminCaller
     /\ Len(update.args) >= 2
     /\ int(update.args[1]).ok) =>
        /\ Cardinality(Relays) = 1
        /\ \A i \in Relays :
              /\ i = 2
              /\ calls[i].arg.chat_id = int(update.args[1]).val
              /\ update.args[1] = S_555 => calls[i].arg.chat_id = 555
              /\ SpaceSeparated(calls[i].arg.text, Tail(update.args))
              /\ ~calls[i].raised =>
                    /\ ConfirmedAfter(i)
                    /\ calls[i + 1].arg[2] = update.args[1]
                    /\ calls[i + 1].arg[3] = calls[i].arg.text
        /\ \A i \in DOMAIN calls : calls[i].op \notin RecordLookups

C13_Witness ==
    /\ status = "admin_send_message_command"
    /\ AdminCaller
    /\ records = <<>>
    /\ update.args = <<S_555, S_hi, S_abc>>
    /\ Len(calls) = 3
    /\ calls[2].arg.text = <<"h", "i", " ", "a", "b", "c">>
    /\ calls[2].arg.chat_id = 555
    /\ ~calls[3].raised

\* some call of the invocation raised
SomeCallRaised == \E i \in DOMAIN calls : calls[i].raised

\* C14: admin_get_users by the caller whose id is ADMIN_ID, whatever the
\* arguments: the handler reads get_list_of_users_from_records and sends the
\* caller the whole list it returned; send_message_to_admin is not called
\* unless one of those calls raised.
C14_AdminGetsFullUserList ==
    (status = "admin_get_users_command" /\ AdminCaller) =>
        /\ calls[2].op = "get_list_of_users_from_records"
        /\ ~calls[2].raised =>
              /\ calls[2].res = DOMAIN records
              /\ calls[3].op = "send_message_to_user"
              /\ calls[3].arg[1] = "List of users:"
              /\ calls[3].arg[2] = calls[2].res
        /\ ~SomeCallRaised => Len(calls) = 3 /\ result.caught.type = "none"
        /\ AdminNotifications = (IF SomeCallRaised THEN 1 ELSE 0)

C14_Witness ==
    /\ status = "admin_get_users_command"
    /\ AdminCaller
    /\ update.args = <<S_abc, S_555>>
    /\ Len(calls) = 3
    /\ ~SomeCallRaised
    /\ calls[3].arg[2] = {S_555}

StartedSends ==
    { i \in At("send_message_to_user") :
        calls[i].arg[1] = "Start creating tasks for analysis of the fresh resumes for user" }

DoneSends ==
    { i \in At("send_message_to_user") :
        calls[i].arg[1] = "Analysis of fresh resumes is done for user" }

\* C15: in admin_anazlyze_resumes_command the "started" message is sent, and
\* has returned, right before the resume analysis delegate is called; the
\* "done" message is sent only right after the delegate returned; when the
\* delegate raises, "started" has been sent, "done" is not sent and
\* send_message_to_admin is called once.
C15_StartedThenAnalysisThenDone ==
    (status = "admin_anazlyze_resumes_command" /\ AdminCaller) =>
        /\ Cardinality(At("analyze_resume_triggered_by_admin_command")) <= 1
        /\ Cardinality(StartedSends) <= 1
        /\ \A i \in At("analyze_resume_triggered_by_admin_command") :
              /\ (i - 1) \in StartedSends
              /\ ~calls[i - 1].raised
              /\ ~calls[i].raised => DoneSends = {i + 1}
              /\ calls[i].raised =>
                    /\ DoneSends = {}
                    /\ AdminNotifications = 1
                    /\ result.caught.msg = <<"raised by", "analyze_resume_triggered_by_admin_command">>
        /\ \A j \in DoneSends :
              /\ calls[j - 1].op = "analyze_resume_triggered_by_admin_command"
              /\ ~calls[j - 1].raised

C15_Witness ==
    /\ status = "admin_anazlyze_resumes_command"
    /\ AdminCaller
    /\ \E i \in At("analyze_resume_triggered_by_admin_command") : calls[i].raised
    /\ StartedSends # {}
    /\ DoneSends = {}
    /\ AdminNotifications = 1

\* C16: in admin_send_message_command, when the transport send to the target
\* raises, the caller is sent no success confirmation, is sent the delivery
\* failure line and then FAIL_TECHNICAL_SUPPORT_TEXT, send_message_to_admin
\* is called exactly once and the send to the target is not made again.
C16_FailedRelayReportedToCallerAndAdmin ==
    (status = "admin_send_message_command" /\ AdminCaller) =>
        \A i \in Relays : calls[i].raised =>
            /\ \A j \in At("send_message_to_user") : calls[j].arg[1] # "Message sent to user"
            /\ Len(calls) >= i + 2
            /\ calls[i + 1].op = "send_message_to_user"
            /\ calls[i + 1].arg[1] = "Failed to send message to user"
            /\ calls[i + 2].op = "send_message_to_user"
            /\ calls[i + 2].arg[1] = "FAIL_TECHNICAL_SUPPORT_TEXT"
            /\ Cardinality(FailureLines) = 2
            /\ AdminNotifications = 1
            /\ Relays = {i}

====
